---- MODULE Spec2Model ----
(***************************************************************************)
(* Model of attachment.go (package confluence): the endpoint builders, the *)
(* five attachment operations and the AddUpdateAttachments batch loop.     *)
(*                                                                         *)
(* Strings are sequences of tokens.  A token is one character, except      *)
(* "B" (the client's base root, e.g. http://host/rest/api, which is a      *)
(* well-formed absolute URL prefix), "%20"/"%2F"/"%3F"/"%25" (one valid    *)
(* percent escape each) and the words "content", "child", "attachment",    *)
(* "data", "filename=" (the literals of the source).  The token "%" is a   *)
(* percent sign that is not followed by two hex digits.                    *)
(***************************************************************************)
EXTENDS Integers, Sequences, FiniteSets, TLC

VARIABLES pc, contentID, files, idx, found, results, errors,
          requests, openFds, last, journal,
          store, round, firstOk, snap,
          epIn, epOut

vars == <<pc, contentID, files, idx, found, results, errors,
          requests, openFds, last, journal,
          store, round, firstOk, snap,
          epIn, epOut>>

batchVars == <<pc, contentID, files, idx, found, results, errors,
               requests, openFds, last, journal>>
storeVars == <<store, round, firstOk, snap>>
epVars == <<epIn, epOut>>

(***************************************************************************)
(* Bounds                                                                  *)
(***************************************************************************)
MaxFiles == 2
MaxResults == 2

(***************************************************************************)
(* String helpers                                                          *)
(***************************************************************************)
Contains(s, t) == \E k \in 1..Len(s) : s[k] = t

FirstIndex(s, t) == IF Contains(s, t)
                    THEN CHOOSE k \in 1..Len(s) : s[k] = t /\ \A j \in 1..(k-1) : s[j] # t
                    ELSE 0

LastIndex(s, t) == IF Contains(s, t)
                   THEN CHOOSE k \in 1..Len(s) : s[k] = t /\ \A j \in (k+1)..Len(s) : s[j] # t
                   ELSE 0

RECURSIVE Flatten(_)
Flatten(ss) == IF ss = <<>> THEN <<>> ELSE Head(ss) \o Flatten(Tail(ss))

(***************************************************************************)
(* net/url as attachment.go uses it                                        *)
(***************************************************************************)
Endpoint == <<"B">>

NoURL == [ok |-> FALSE, path |-> <<>>, hasQuery |-> FALSE, query |-> <<>>]

\* url.ParseRequestURI: the text up to the first "?" is the path, the rest
\* the raw query; the path must unescape, so a stray "%" in it is an error.
\* The query is kept verbatim and never validated.
ParseRequestURI(raw) ==
    LET q == FirstIndex(raw, "?")
        p == IF q = 0 THEN raw ELSE SubSeq(raw, 1, q - 1)
    IN  IF raw = <<>> \/ Head(raw) # "B" \/ Contains(p, "%")
        THEN NoURL
        ELSE [ok |-> TRUE, path |-> p, hasQuery |-> q # 0,
              query |-> IF q = 0 THEN <<>> ELSE SubSeq(raw, q + 1, Len(raw))]

\* (*URL).EscapedPath: a path that is not a valid encoding is re-escaped, so
\* a space comes out as %20; valid escapes and path characters are kept.
EscapeToken(t) == IF t = " " THEN "%20" ELSE t

EscapedPath(p) == [k \in 1..Len(p) |-> EscapeToken(p[k])]

\* (*URL).String
URLString(u) == EscapedPath(u.path) \o (IF u.hasQuery THEN <<"?">> \o u.query ELSE <<>>)

\* url.QueryEscape, as url.Values.Encode applies it to the value
QueryEscapeToken(t) ==
    CASE t = " " -> <<"+">>
      [] t = "/" -> <<"%2F">>
      [] t = "?" -> <<"%3F">>
      [] t = "%" -> <<"%25">>
      [] OTHER   -> <<t>>

QueryEscape(s) == Flatten([k \in 1..Len(s) |-> QueryEscapeToken(s[k])])

(***************************************************************************)
(* Endpoint builders                                                       *)
(***************************************************************************)
newAttachmentEndpoint(c) ==
    ParseRequestURI(Endpoint \o <<"/", "content", "/">> \o c \o <<"/", "child", "/", "attachment">>)

attachmentEndpointNoID(c, a) == newAttachmentEndpoint(c)

attachmentEndpoint(c, a) ==
    LET e == newAttachmentEndpoint(c)
    IN  IF e.ok THEN ParseRequestURI(URLString(e) \o <<"/">> \o a) ELSE NoURL

attachmentDataEndpoint(c, a) ==
    LET e == attachmentEndpoint(c, a)
    IN  IF e.ok THEN ParseRequestURI(URLString(e) \o <<"/", "data">>) ELSE NoURL

(***************************************************************************)
(* Attachment codec                                                        *)
(***************************************************************************)
ZeroAttachment == [id |-> <<>>, title |-> <<>>]

\* What client.request / client.sendRequest hands back: an error, or a body
\* that is not JSON ("garbage"), a list object {"results": [...], "size": n}
\* ("list"), or one attachment object ("object").
MkError == [kind |-> "error", results |-> <<>>, size |-> 0, att |-> ZeroAttachment]
MkGarbage == [kind |-> "garbage", results |-> <<>>, size |-> 0, att |-> ZeroAttachment]
MkList(rs, n) == [kind |-> "list", results |-> rs, size |-> n, att |-> ZeroAttachment]
MkObject(a) == [kind |-> "object", results |-> <<>>, size |-> 0, att |-> a]

\* json.Unmarshal(res, &attachments): keys the struct does not have are
\* ignored, so a single attachment object decodes to an empty Results.
UnmarshalAttachments(resp) ==
    CASE resp.kind = "list"   -> [ok |-> TRUE, Results |-> resp.results, Size |-> resp.size]
      [] resp.kind = "object" -> [ok |-> TRUE, Results |-> <<>>, Size |-> 0]
      [] OTHER                -> [ok |-> FALSE, Results |-> <<>>, Size |-> 0]

\* json.Unmarshal(res, &attachment): a list object carries none of the
\* attachment's keys and decodes to the zero Attachment without an error.
UnmarshalAttachment(resp) ==
    CASE resp.kind = "object" -> [ok |-> TRUE, att |-> resp.att]
      [] resp.kind = "list"   -> [ok |-> TRUE, att |-> ZeroAttachment]
      [] OTHER                -> [ok |-> FALSE, att |-> ZeroAttachment]

BaseWhole(p) == p

\* path.Base
Base(p) ==
    LET RECURSIVE Strip(_)
        Strip(s) == IF Len(s) > 0 /\ s[Len(s)] = "/" THEN Strip(SubSeq(s, 1, Len(s) - 1)) ELSE s
        t == Strip(p)
        k == LastIndex(t, "/")
    IN  IF p = <<>> THEN <<".">>
        ELSE IF t = <<>> THEN <<"/">>
        ELSE SubSeq(t, k + 1, Len(t))

\* fi.Name() of the opened file: os's basename of the name given to os.Open
StatName(p) ==
    LET RECURSIVE Strip(_)
        Strip(s) == IF Len(s) > 1 /\ s[Len(s)] = "/" THEN Strip(SubSeq(s, 1, Len(s) - 1)) ELSE s
        t == Strip(p)
        k == IF Len(t) > 1 THEN LastIndex(SubSeq(t, 1, Len(t) - 1), "/") ELSE 0
    IN  SubSeq(t, k + 1, Len(t))

\* strconv.FormatBool
FormatBool(b) == IF b THEN "true" ELSE "false"

Req(method, url, file, minorEdit) ==
    [method |-> method, url |-> url, file |-> file, minorEdit |-> minorEdit]

Ret(att, err, reqs, opened) ==
    [att |-> att, err |-> err, reqs |-> reqs, opened |-> opened, closed |-> 0]

(***************************************************************************)
(* Attachment operations.  resp is what the transport answers to the one   *)
(* request the operation sends; fs is what the local file system does      *)
(* ("noopen", "nostat", "noread" or "ok").                                 *)
(***************************************************************************)
DeleteAttachment(c, a, resp) ==
    LET e == attachmentEndpoint(c, a)
        rq == <<Req("DELETE", URLString(e), <<>>, "none")>>
    IN  IF ~e.ok THEN Ret(ZeroAttachment, "MalformedEndpoint", <<>>, 0)
        ELSE IF resp.kind = "error" THEN Ret(ZeroAttachment, "TransportError", rq, 0)
        ELSE Ret(ZeroAttachment, "nil", rq, 0)

GetAttachmentLast(c, a, resp) ==
    LET e == attachmentEndpoint(c, a)
        rq == <<Req("GET", URLString(e), <<>>, "none")>>
        d == UnmarshalAttachments(resp)
    IN  IF ~e.ok THEN Ret(ZeroAttachment, "MalformedEndpoint", <<>>, 0)
        ELSE IF resp.kind = "error" THEN Ret(ZeroAttachment, "TransportError", rq, 0)
        ELSE IF ~d.ok THEN Ret(ZeroAttachment, "DecodeError", rq, 0)
        ELSE IF Len(d.Results) < 1 THEN Ret(ZeroAttachment, "EmptyList", rq, 0)
        ELSE Ret(d.Results[Len(d.Results)], "nil", rq, 0)

GetAttachment(c, a, resp) ==
    LET e == attachmentEndpoint(c, a)
        rq == <<Req("GET", URLString(e), <<>>, "none")>>
        d == UnmarshalAttachments(resp)
    IN  IF ~e.ok THEN Ret(ZeroAttachment, "MalformedEndpoint", <<>>, 0)
        ELSE IF resp.kind = "error" THEN Ret(ZeroAttachment, "TransportError", rq, 0)
        ELSE IF ~d.ok THEN Ret(ZeroAttachment, "DecodeError", rq, 0)
        ELSE IF Len(d.Results) < 1 THEN Ret(ZeroAttachment, "EmptyList", rq, 0)
        ELSE Ret(d.Results[1], "nil", rq, 0)

GetAttachmentByFilenameRetry(c, filename, resp) ==
    LET e == newAttachmentEndpoint(c)
        u == [e EXCEPT !.hasQuery = TRUE, !.query = <<"filename=">> \o QueryEscape(filename)]
        rq == <<Req("GET", URLString(u), <<>>, "none")>>
        d == UnmarshalAttachments(resp)
    IN  IF ~e.ok THEN Ret(ZeroAttachment, "MalformedEndpoint", <<>>, 0)
        ELSE IF resp.kind = "error" THEN Ret(ZeroAttachment, "TransportError", rq \o rq, 0)
        ELSE IF ~d.ok THEN Ret(ZeroAttachment, "DecodeError", rq, 0)
        ELSE IF Len(d.Results) < 1 THEN Ret(ZeroAttachment, "EmptyList", rq, 0)
        ELSE Ret(d.Results[1], "nil", rq, 0)

GetAttachmentByFilename(c, filename, resp) ==
    LET e == newAttachmentEndpoint(c)
        \* endpoint.RawQuery = data.Encode() replaces whatever query was parsed
        u == [e EXCEPT !.hasQuery = TRUE, !.query = <<"filename=">> \o QueryEscape(filename)]
        rq == <<Req("GET", URLString(u), <<>>, "none")>>
        d == UnmarshalAttachments(resp)
    IN  IF ~e.ok THEN Ret(ZeroAttachment, "MalformedEndpoint", <<>>, 0)
        ELSE IF resp.kind = "error" THEN Ret(ZeroAttachment, "TransportError", rq, 0)
        ELSE IF ~d.ok THEN Ret(ZeroAttachment, "DecodeError", rq, 0)
        ELSE IF Len(d.Results) < 1 THEN Ret(ZeroAttachment, "EmptyList", rq, 0)
        ELSE Ret(d.Results[1], "nil", rq, 0)

deferredCloseOnSuccess(r) == IF r.err = "nil" THEN r.opened ELSE 0

\* defer file.Close(): runs on every return that follows a successful os.Open
deferredClose(r) == r.opened

UpdateAttachment(c, a, p, minorEdit, fs, resp) ==
    LET e == attachmentDataEndpoint(c, a)
        rq == <<Req("POST", URLString(e), StatName(p), FormatBool(minorEdit))>>
        d == UnmarshalAttachment(resp)
        r == IF fs = "noopen" THEN Ret(ZeroAttachment, "LocalIOError", <<>>, 0)
             ELSE IF fs = "nostat" THEN Ret(ZeroAttachment, "LocalIOError", <<>>, 1)
             ELSE IF fs = "noread" THEN Ret(ZeroAttachment, "LocalIOError", <<>>, 1)
             ELSE IF ~e.ok THEN Ret(ZeroAttachment, "MalformedEndpoint", <<>>, 1)
             ELSE IF resp.kind = "error" THEN Ret(ZeroAttachment, "TransportError", rq, 1)
             ELSE IF ~d.ok THEN Ret(ZeroAttachment, "DecodeError", rq, 1)
             ELSE Ret(d.att, "nil", rq, 1)
    IN  [r EXCEPT !.closed = deferredClose(r)]

AddAttachment(c, p, fs, resp) ==
    LET e == newAttachmentEndpoint(c)
        rq == <<Req("POST", URLString(e), StatName(p), "none")>>
        d == UnmarshalAttachments(resp)
        r == IF fs = "noopen" THEN Ret(ZeroAttachment, "LocalIOError", <<>>, 0)
             ELSE IF fs = "nostat" THEN Ret(ZeroAttachment, "LocalIOError", <<>>, 1)
             ELSE IF fs = "noread" THEN Ret(ZeroAttachment, "LocalIOError", <<>>, 1)
             ELSE IF ~e.ok THEN Ret(ZeroAttachment, "MalformedEndpoint", <<>>, 1)
             ELSE IF resp.kind = "error" THEN Ret(ZeroAttachment, "TransportError", rq, 1)
             ELSE IF ~d.ok THEN Ret(ZeroAttachment, "DecodeError", rq, 1)
             ELSE IF Len(d.Results) < 1 THEN Ret(ZeroAttachment, "EmptyList", rq, 1)
             ELSE Ret(d.Results[1], "nil", rq, 1)
    IN  [r EXCEPT !.closed = deferredClose(r)]

(***************************************************************************)
(* Inputs and transport answers                                            *)
(***************************************************************************)
ContentIDs == {<<>>, <<"1">>, <<"%">>}
AttachmentIDs == {<<>>, <<"7">>}
Paths == {<<"a">>, <<"d", "/", "b">>}
FileStates == {"noopen", "nostat", "noread", "ok"}

Att(id, title) == [id |-> id, title |-> title]

Pool == {Att(<<"a", "t", "t", "1">>, <<"a">>), Att(<<"a", "t">>, <<"b">>)}

RECURSIVE SeqsUpTo(_, _)
SeqsUpTo(S, n) ==
    IF n = 0 THEN {<<>>}
    ELSE LET shorter == SeqsUpTo(S, n - 1)
         IN  shorter \cup {Append(q, x) : q \in {t \in shorter : Len(t) = n - 1}, x \in S}

\* the reported size need not match the number of results
Responses ==
    {MkError, MkGarbage}
    \cup {MkList(rs, n) : rs \in SeqsUpTo(Pool, MaxResults), n \in {0, 1}}
    \cup {MkObject(a) : a \in Pool}

\* the batches: one list of each length, alternating the two paths
FileList(n) == [k \in 1..n |-> IF k % 2 = 1 THEN <<"a">> ELSE <<"d", "/", "b">>]

FileLists == {FileList(n) : n \in 0..MaxFiles}

(***************************************************************************)
(* State                                                                   *)
(***************************************************************************)
NoFound == [att |-> ZeroAttachment, err |-> "none", reqs |-> <<>>]

Last(op, c, a, p, fs, resp, r) ==
    [op |-> op, c |-> c, a |-> a, p |-> p, fs |-> fs, resp |-> resp,
     att |-> r.att, err |-> r.err]

NoLast == Last("none", <<>>, <<>>, <<>>, "ok", MkError, Ret(ZeroAttachment, "nil", <<>>, 0))

BatchInit ==
    /\ pc = "idle"
    /\ contentID = <<>>
    /\ files = <<>>
    /\ idx = 0
    /\ found = NoFound
    /\ results = <<>>
    /\ errors = <<>>
    /\ requests = <<>>
    /\ openFds = 0
    /\ last = NoLast
    /\ journal = <<>>

StoreIdle == store = <<>> /\ round = 0 /\ firstOk = <<>> /\ snap = <<>>

NoEndpoints == [built |-> FALSE, e1 |-> NoURL, d1 |-> NoURL, e2 |-> NoURL, d2 |-> NoURL]

EpIdle == epIn = <<>> /\ epOut = NoEndpoints

Init == BatchInit /\ StoreIdle /\ EpIdle

\* The program calls one operation of the client, which runs to its return.
\* The client keeps nothing between calls, so a behaviour is one call.
Fresh == pc = "idle" /\ last = NoLast

Single(op, c, a, p, fs, resp, r) ==
    /\ Fresh
    /\ last' = Last(op, c, a, p, fs, resp, r)
    /\ requests' = r.reqs
    /\ openFds' = openFds + r.opened - r.closed
    /\ contentID' = <<>> /\ files' = <<>> /\ idx' = 0 /\ found' = NoFound
    /\ results' = <<>> /\ errors' = <<>> /\ journal' = <<>>
    /\ UNCHANGED pc

CallGetAttachment ==
    \E c \in ContentIDs, a \in AttachmentIDs, resp \in Responses :
        Single("GetAttachment", c, a, <<>>, "ok", resp, GetAttachment(c, a, resp))
        /\ UNCHANGED <<storeVars, epVars>>

CallGetAttachmentByFilename ==
    \E c \in ContentIDs, p \in Paths, resp \in Responses :
        Single("GetAttachmentByFilename", c, <<>>, Base(p), "ok", resp,
               GetAttachmentByFilename(c, Base(p), resp))
        /\ UNCHANGED <<storeVars, epVars>>

CallDeleteAttachment ==
    \E c \in ContentIDs, a \in AttachmentIDs, resp \in Responses :
        Single("DeleteAttachment", c, a, <<>>, "ok", resp, DeleteAttachment(c, a, resp))
        /\ UNCHANGED <<storeVars, epVars>>

CallAddAttachment ==
    \E c \in ContentIDs, p \in Paths, fs \in FileStates, resp \in Responses :
        Single("AddAttachment", c, <<>>, p, fs, resp, AddAttachment(c, p, fs, resp))
        /\ UNCHANGED <<storeVars, epVars>>

CallUpdateAttachment ==
    \E c \in ContentIDs, a \in AttachmentIDs, p \in Paths, m \in BOOLEAN,
       fs \in FileStates, resp \in Responses :
        Single("UpdateAttachment", c, a, p, fs, resp, UpdateAttachment(c, a, p, m, fs, resp))
        /\ UNCHANGED <<storeVars, epVars>>

(***************************************************************************)
(* AddUpdateAttachments: one lookup step and one upload step per file.     *)
(* journal keeps, per file the loop has reached, what that iteration did.  *)
(***************************************************************************)
BatchLast(c) ==
    Last("AddUpdateAttachments", c, <<>>, <<>>, "ok", MkError, Ret(ZeroAttachment, "nil", <<>>, 0))

Running == Last("running", <<>>, <<>>, <<>>, "ok", MkError, Ret(ZeroAttachment, "nil", <<>>, 0))

StrippedIDWhole(id) == id

\* attachment.Id[3:], which panics when the id has fewer than 3 bytes

StrippedID(id) == SubSeq(id, 4, Len(id))

\* the if/else of the loop body, with the slice expression's bounds check
Branch(f) ==
    IF f.err # "nil" THEN "create"
    ELSE IF Len(f.att.id) < 3 THEN "panic"
    ELSE "update"

Start(c, fl) ==
    /\ pc = "idle"
    /\ contentID' = c
    /\ files' = fl
    /\ results' = <<>>
    /\ errors' = <<>>
    /\ requests' = <<>>
    /\ journal' = <<>>
    /\ found' = NoFound
    /\ UNCHANGED openFds
    /\ IF fl = <<>>
       THEN pc' = "idle" /\ idx' = 0 /\ last' = BatchLast(c)
       ELSE pc' = "lookup" /\ idx' = 1 /\ last' = Running

LookupStep(resp) ==
    /\ pc = "lookup"
    /\ LET r == GetAttachmentByFilename(contentID, Base(files[idx]), resp)
       IN  /\ found' = [att |-> r.att, err |-> r.err, reqs |-> r.reqs]
           /\ requests' = requests \o r.reqs
    /\ pc' = "upload"
    /\ UNCHANGED <<contentID, files, idx, results, errors, openFds, last, journal>>

Entry(f, branch, r, fs) ==
    [lookupErr |-> f.err, foundID |-> f.att.id, lookup |-> f.reqs, branch |-> branch,
     upload |-> r.reqs, err |-> r.err, readable |-> (fs = "ok")]

\* lines 245-249: the upload the loop body makes for the current file
Upload(fs, resp) ==
    LET b == Branch(found)
    IN  CASE b = "create" -> AddAttachment(contentID, files[idx], fs, resp)
          [] b = "update" -> UpdateAttachment(contentID, StrippedID(found.att.id),
                                              files[idx], TRUE, fs, resp)
          [] OTHER -> Ret(ZeroAttachment, "panic", <<>>, 0)

UploadStep(fs, resp) ==
    /\ pc = "upload"
    /\ LET b == Branch(found)
           r == Upload(fs, resp)
       IN  /\ journal' = Append(journal, Entry(found, b, r, fs))
           /\ IF b = "panic"
              THEN /\ pc' = "panicked"
                   /\ UNCHANGED <<idx, results, errors, requests, openFds, last>>
              ELSE /\ results' = IF r.err = "nil" THEN Append(results, r.att) ELSE results
                   /\ errors' = IF r.err = "nil" THEN errors ELSE Append(errors, r.err)
                   /\ requests' = requests \o r.reqs
                   /\ openFds' = openFds + r.opened - r.closed
                   /\ idx' = idx + 1
                   /\ pc' = IF idx = Len(files) THEN "idle" ELSE "lookup"
                   /\ last' = IF idx = Len(files) THEN BatchLast(contentID) ELSE last
    /\ found' = NoFound
    /\ UNCHANGED <<contentID, files>>

\* the batch call has returned its two collections
Returned == pc = "idle" /\ last.op = "AddUpdateAttachments"

CallAddUpdateAttachments ==
    \E c \in ContentIDs, fl \in FileLists :
        Fresh /\ Start(c, fl) /\ UNCHANGED <<storeVars, epVars>>

BatchLookup ==
    \E resp \in Responses : LookupStep(resp) /\ UNCHANGED <<storeVars, epVars>>

BatchUpload ==
    \E fs \in FileStates, resp \in Responses : UploadStep(fs, resp) /\ UNCHANGED <<storeVars, epVars>>

Next ==
    \/ CallGetAttachment
    \/ CallGetAttachmentByFilename
    \/ CallDeleteAttachment
    \/ CallAddAttachment
    \/ CallUpdateAttachment
    \/ CallAddUpdateAttachments
    \/ BatchLookup
    \/ BatchUpload

Spec == Init /\ [][Next]_vars

(***************************************************************************)
(* Two invocations of AddUpdateAttachments with the same content id and    *)
(* file list against a service that stores what it is sent: a lookup       *)
(* lists the stored attachments with that title, a Create appends one with *)
(* a fresh "att"-prefixed id, an Update answers with the stored attachment *)
(* of that id.                                                             *)
(***************************************************************************)
StorePaths == {<<"a">>, <<"d", "/", "a">>, <<"b">>}

StoreFileLists == SeqsUpTo(StorePaths, MaxFiles)

StoreContentID == <<"1">>

Digit(n) == <<"1", "2", "3", "4", "5", "6", "7", "8", "9">>[n]

Serve(st, rq) ==
    LET q == FirstIndex(rq.url, "?")
        path == IF q = 0 THEN rq.url ELSE SubSeq(rq.url, 1, q - 1)
        query == IF q = 0 THEN <<>> ELSE SubSeq(rq.url, q + 1, Len(rq.url))
        coll == Len(Endpoint) + Len(StoreContentID) + 7
        matches == SelectSeq(st, LAMBDA a : <<"filename=">> \o QueryEscape(a.title) = query)
        new == Att(<<"a", "t", "t", Digit(Len(st) + 1)>>, rq.file)
        x == SubSeq(path, coll + 2, Len(path) - 2)
        hits == SelectSeq(st, LAMBDA a : a.id = <<"a", "t", "t">> \o x)
    IN  IF rq.method = "GET" THEN [resp |-> MkList(matches, Len(matches)), store |-> st]
        ELSE IF Len(path) = coll THEN [resp |-> MkList(<<new>>, 1), store |-> Append(st, new)]
        ELSE IF hits # <<>> THEN [resp |-> MkObject(hits[1]), store |-> st]
        ELSE [resp |-> MkError, store |-> st]

Answer(st, reqs) == IF reqs = <<>> THEN [resp |-> MkError, store |-> st] ELSE Serve(st, reqs[1])

StoreInit ==
    /\ BatchInit
    /\ store \in {<<>>, <<Att(<<"a", "t", "t", "1">>, <<"a">>)>>}
    /\ round = 0
    /\ firstOk = <<>>
    /\ snap = <<>>
    /\ EpIdle

FirstInvocation ==
    /\ round = 0
    /\ \E fl \in StoreFileLists : Start(StoreContentID, fl)
    /\ round' = 1
    /\ snap' = IF pc' = "idle" THEN store ELSE snap
    /\ UNCHANGED <<store, firstOk, epVars>>

SecondInvocation ==
    /\ round = 1
    /\ Returned
    /\ Start(contentID, files)
    /\ round' = 2
    /\ UNCHANGED <<store, firstOk, snap, epVars>>

StoreLookup ==
    /\ pc = "lookup"
    /\ LET rq == GetAttachmentByFilename(contentID, Base(files[idx]), MkError).reqs
       IN  LookupStep(Answer(store, rq).resp)
    /\ UNCHANGED <<storeVars, epVars>>

StoreUpload ==
    /\ pc = "upload"
    /\ \E fs \in FileStates :
           LET sv == Answer(store, Upload(fs, MkError).reqs)
           IN  /\ UploadStep(fs, sv.resp)
               /\ store' = sv.store
               /\ IF round = 1 /\ pc' = "idle"
                  THEN /\ snap' = sv.store
                       /\ firstOk' = [k \in 1..Len(files) |-> journal'[k].err = "nil"]
                  ELSE UNCHANGED <<snap, firstOk>>
    /\ UNCHANGED <<round, epVars>>

StoreNext == FirstInvocation \/ StoreLookup \/ StoreUpload \/ SecondInvocation

SpecStore == StoreInit /\ [][StoreNext]_vars

(***************************************************************************)
(* The endpoint builders applied to two (contentID, attachmentID) pairs    *)
(***************************************************************************)
EpIDs == {<<>>, <<"1">>, <<"2">>, <<"1", "/", "child", "/", "attachment", "/", "2">>,
          <<"2", "/", "data">>, <<" ">>, <<"%20">>, <<"%">>}

EpInit ==
    /\ BatchInit
    /\ StoreIdle
    /\ epIn \in EpIDs \X EpIDs \X EpIDs \X EpIDs
    /\ epOut = NoEndpoints

BuildEndpoints ==
    /\ ~epOut.built
    /\ epOut' = [built |-> TRUE,
                 e1 |-> attachmentEndpoint(epIn[1], epIn[2]),
                 d1 |-> attachmentDataEndpoint(epIn[1], epIn[2]),
                 e2 |-> attachmentEndpoint(epIn[3], epIn[4]),
                 d2 |-> attachmentDataEndpoint(epIn[3], epIn[4])]
    /\ UNCHANGED <<batchVars, storeVars, epIn>>

EpNext == BuildEndpoints

SpecEndpoint == EpInit /\ [][EpNext]_vars

(***************************************************************************)
(* Properties of the operations and of the batch loop                      *)
(***************************************************************************)
Aborted == pc = "panicked"

InBatch == pc \in {"lookup", "upload", "panicked"} \/ Returned

SingleOps == {"GetAttachment", "GetAttachmentByFilename", "DeleteAttachment",
              "AddAttachment", "UpdateAttachment"}

CollectionURL(c) == Endpoint \o <<"/", "content", "/">> \o c \o <<"/", "child", "/", "attachment">>

DataURL(c, a) == CollectionURL(c) \o <<"/">> \o a \o <<"/", "data">>

HasAttPrefix(id) == Len(id) >= 3 /\ SubSeq(id, 1, 3) = <<"a", "t", "t">>

WithoutAttPrefix(id) == IF HasAttPrefix(id) THEN SubSeq(id, 4, Len(id)) ELSE id

RECURSIVE JournalRequests(_)
JournalRequests(j) ==
    IF j = <<>> THEN <<>> ELSE Head(j).lookup \o Head(j).upload \o JournalRequests(Tail(j))

\* C1: once a batch call is over, every input file has been processed exactly
\* once and has exactly one outcome: len(results) + len(errors) = N.
C1_OneOutcomePerFile ==
    (Returned \/ Aborted) =>
        /\ Len(journal) = Len(files)
        /\ \A k \in 1..Len(journal) : journal[k].branch \in {"create", "update"}
        /\ Len(results) + Len(errors) = Len(files)

\* C2: a batch call never aborts, whatever the service answers to the lookup.
C2_BatchNeverAborts == ~Aborted

\* C3: a Create request is sent only after a lookup that failed with
\* NotFound; after any other lookup failure the file ends in the errors
\* collection and no upload request is sent for it.
C3_CreateOnlyOnNotFound ==
    \A k \in 1..Len(journal) :
        /\ (\E n \in 1..Len(journal[k].upload) :
                journal[k].upload[n].url = CollectionURL(contentID))
               => journal[k].lookupErr = "EmptyList"
        /\ journal[k].lookupErr \in {"TransportError", "DecodeError", "MalformedEndpoint"} =>
               journal[k].upload = <<>> /\ journal[k].err # "nil"

C6_EmptyContentIDRejected ==
    /\ (last.op \in SingleOps /\ last.c = <<>>) => (requests = <<>> /\ last.err # "nil")
    /\ (InBatch /\ contentID = <<>>) => (requests = <<>> /\ results = <<>>)

\* C7: GetAttachment, GetAttachmentByFilename and AddAttachment, given a
\* response that decodes as a list, return its first result unchanged when
\* there is one, whatever the other results and the size field are, and
\* fail with the empty-list error when there is none.
C7_FirstResultOrNotFound ==
    (last.op \in {"GetAttachment", "GetAttachmentByFilename", "AddAttachment"}
     /\ requests # <<>> /\ last.resp.kind = "list") =>
        IF last.resp.results # <<>>
        THEN last.err = "nil" /\ last.att = Head(last.resp.results)
        ELSE last.err = "EmptyList"

C7_Witness ==
    /\ last.op = "GetAttachment"
    /\ Len(last.resp.results) = 2
    /\ last.resp.results[1] # last.resp.results[2]
    /\ last.resp.size = 0
    /\ last.err = "nil"
    /\ last.att = last.resp.results[1]

C10_NoRequestNoLeak ==
    /\ openFds = 0
    /\ (last.op \in {"AddAttachment", "UpdateAttachment"}
        /\ (last.fs # "ok" \/ Contains(last.c, "%"))) =>
           /\ requests = <<>>
           /\ last.err \in {"LocalIOError", "MalformedEndpoint"}
    /\ \A k \in 1..Len(journal) :
           (~journal[k].readable \/ Contains(contentID, "%")) =>
               /\ journal[k].upload = <<>>
               /\ journal[k].err \in {"LocalIOError", "MalformedEndpoint", "panic"}

C10_Witness ==
    /\ last.op = "AddAttachment"
    /\ last.fs = "noread"
    /\ last.err = "LocalIOError"
    /\ requests = <<>>
    /\ openFds = 0

(***************************************************************************)
(* Properties of the repeated invocation                                   *)
(***************************************************************************)
Count(st, name) == Len(SelectSeq(st, LAMBDA a : a.title = name))

\* C4 as stated: in the second invocation every file takes the Update path
\* and never the Create path, and no filename has more attachments on the
\* service than after the first invocation.
C4_SecondRunUpdatesOnly ==
    round = 2 =>
        /\ \A k \in 1..Len(journal) : journal[k].branch = "update"
        /\ \A k \in 1..Len(files) : Count(store, Base(files[k])) <= Count(snap, Base(files[k]))

\* C4 amended: in the second invocation every file that the first invocation
\* uploaded successfully takes the Update path and never the Create path,
\* and the number of attachments with that file's name does not grow after
\* the first invocation.
C4_SecondRunUpdatesUploaded ==
    round = 2 =>
        /\ Len(firstOk) = Len(files)
        /\ \A k \in 1..Len(journal) :
               firstOk[k] =>
                   /\ journal[k].branch = "update"
                   /\ \A n \in 1..Len(journal[k].upload) :
                          journal[k].upload[n].url # CollectionURL(contentID)
        /\ \A k \in 1..Len(files) :
               firstOk[k] => Count(store, Base(files[k])) = Count(snap, Base(files[k]))

C4_Witness ==
    /\ round = 2
    /\ Returned
    /\ files = << <<"a">>, <<"d", "/", "a">> >>
    /\ firstOk = <<TRUE, TRUE>>
    /\ journal[1].branch = "update" /\ journal[2].branch = "update"
    /\ Len(results) = 2
    /\ Count(store, <<"a">>) = 1

(***************************************************************************)
(* Properties of the endpoint builders                                     *)
(***************************************************************************)
DistinctPairs == <<epIn[1], epIn[2]>> # <<epIn[3], epIn[4]>>

NoClash(u, v) == (u.ok /\ v.ok) => URLString(u) # URLString(v)

\* an identifier with no "/" in it and nothing (*URL).String rewrites
Plain(id) == ~Contains(id, "/") /\ ~Contains(id, " ")

\* C8 as stated: two distinct pairs that attachmentEndpoint accepts never
\* share a URL, whatever the identifiers contain.
C8_Injective ==
    (epOut.built /\ DistinctPairs) =>
        /\ NoClash(epOut.e1, epOut.e2)
        /\ NoClash(epOut.e1, epOut.d2)
        /\ NoClash(epOut.d1, epOut.e2)
        /\ NoClash(epOut.d1, epOut.d2)

\* C8 amended: two distinct pairs whose identifiers contain no "/" and no
\* character that the URL's serialisation percent-escapes never share a URL.
C8_InjectiveOnPlainIDs ==
    (epOut.built /\ DistinctPairs /\ \A k \in 1..4 : Plain(epIn[k])) =>
        /\ NoClash(epOut.e1, epOut.e2)
        /\ NoClash(epOut.e1, epOut.d2)
        /\ NoClash(epOut.d1, epOut.e2)
        /\ NoClash(epOut.d1, epOut.d2)

C8_Witness ==
    /\ epOut.built
    /\ epIn = << <<"1">>, <<"2">>, <<"2">>, <<"1">> >>
    /\ epOut.e1.ok /\ epOut.e2.ok
    /\ URLString(epOut.e1) = <<"B", "/", "content", "/", "1", "/", "child", "/", "attachment", "/", "2">>
    /\ URLString(epOut.e2) # URLString(epOut.e1)

====
